---- MODULE Spec2Model ----
(***************************************************************************)
(* A model of TwitchChatBot (src/bot.py) as driven by src/main.py: one     *)
(* session that calls connect() once.                                      *)
(*                                                                         *)
(* Text is modelled character by character: a Python str is a sequence of  *)
(* one-character strings, and a bytes object is a sequence of bytes, each  *)
(* ASCII byte written as its character.  Three non-ASCII bytes are used:   *)
(* "C3" and "A9" (the UTF-8 encoding of one accented letter, decoded to    *)
(* the single character "E_ACUTE") and "FF" (never valid in UTF-8).        *)
(***************************************************************************)
EXTENDS Naturals, Sequences, FiniteSets

VARIABLES
    state,      \* where the control thread is (see the state names below)
    idx,        \* join_channels: index of the next channel of self.channels
    username,   \* self.username
    password,   \* self.__password
    channels,   \* self.channels
    wire,       \* bytes the server has sent that recv() has not returned yet
    rx,         \* every byte recv() has returned so far
    listened,   \* the bytes recv() has returned inside listen()
    lines,      \* listen(): the chunk's lines the for loop has yet to visit
    details,    \* listen(): server_message_details of the last parse
    writes,     \* every bytes object handed to socket.send, in order
    error,      \* the exception that left connect(), or "none"
    failed,     \* a socket call (connect, send, recv) has raised
    eofReads,   \* how many times recv() has returned b""
    \* Two instances in one process (the second specification, SpecTwo):
    socketOf,   \* per instance: the socket object self._socket resolves to
    config,     \* per instance: its username, password and channels
    pos,        \* per instance: where its thread is
    step,       \* per instance: how many handshake messages it has sent
    connected,  \* per socket object: connect() has succeeded on it
    users,      \* per socket object: the instances that called a method of it
    sent,       \* per socket object: the <<instance, bytes>> handed to send
    inbound     \* per socket object: bytes received from the server, not read yet

\* The variables of the session of main.py.
session == <<state, idx, username, password, channels, wire, rx, listened,
             lines, details, writes, error, failed, eofReads>>

\* The variables of the process with two instances.
process == <<socketOf, config, pos, step, connected, users, sent, inbound>>

vars == <<state, idx, username, password, channels, wire, rx, listened,
          lines, details, writes, error, failed, eofReads,
          socketOf, config, pos, step, connected, users, sent, inbound>>

-----------------------------------------------------------------------------
(* Bounds of the model.                                                    *)

\* self.channels holds at most MaxChannels channels.
MaxChannels == 2

\* recv() is observed returning b"" at most MaxEofReads times.
MaxEofReads == 2

-----------------------------------------------------------------------------
(* Characters and the literals of src/bot.py.                              *)

CR == "\r"
LF == "\n"
CRLF == <<CR, LF>>

\* bot.py:50
socket_bytes == 1024

\* "PING" (bot.py:159)
PING == <<"P","I","N","G">>
\* "PRIVMSG" (bot.py:163)
PRIVMSG == <<"P","R","I","V","M","S","G">>
\* "End of /NAMES list" (bot.py:103)
EndOfNames == <<"E","n","d"," ","o","f"," ","/","N","A","M","E","S"," ","l","i","s","t">>
\* "PONG :tmi.twitch.tv" (bot.py:160)
PONG == <<"P","O","N","G"," ",":","t","m","i",".","t","w","i","t","c","h",".","t","v">>

-----------------------------------------------------------------------------
(* Python's str and bytes operations.                                      *)

\* s[i:] for a 1-based i.
From(s, i) == SubSeq(s, i, Len(s))

\* s.startswith(sub) at 1-based position i.
MatchAt(s, sub, i) ==
    /\ i + Len(sub) - 1 <= Len(s)
    /\ \A k \in 1..Len(sub) : s[i + k - 1] = sub[k]

\* `sub in s`
Contains(s, sub) == \E i \in 1..(Len(s) + 1) : MatchAt(s, sub, i)

\* s.find(sub) + 1, or 0 when sub does not occur.
Find(s, sub) ==
    IF Contains(s, sub)
    THEN CHOOSE i \in 1..(Len(s) + 1) :
            /\ MatchAt(s, sub, i)
            /\ \A j \in 1..(i - 1) : ~MatchAt(s, sub, j)
    ELSE 0

\* s.split(sep): the pieces between the non-overlapping occurrences of sep,
\* found left to right; n occurrences give n + 1 pieces.
RECURSIVE Split(_, _)
Split(s, sep) ==
    LET i == Find(s, sep)
    IN  IF i = 0
        THEN <<s>>
        ELSE <<SubSeq(s, 1, i - 1)>> \o Split(From(s, i + Len(sep)), sep)

UpperCase == <<"A","B","C","D","E","F","G","H","I","J","K","L","M",
               "N","O","P","Q","R","S","T","U","V","W","X","Y","Z">>
LowerCase == <<"a","b","c","d","e","f","g","h","i","j","k","l","m",
               "n","o","p","q","r","s","t","u","v","w","x","y","z">>

\* c.lower() for one character.
LowerChar(c) ==
    IF \E k \in 1..26 : UpperCase[k] = c
    THEN LowerCase[CHOOSE k \in 1..26 : UpperCase[k] = c]
    ELSE c

\* s.lower()
Lower(s) == [i \in 1..Len(s) |-> LowerChar(s[i])]

\* Whether bytes.decode() (UTF-8, errors="strict") accepts b.
DecodeOk(b) ==
    \A i \in 1..Len(b) :
        /\ b[i] # "FF"
        /\ b[i] = "C3" => (i < Len(b) /\ b[i + 1] = "A9")
        /\ b[i] = "A9" => (i > 1 /\ b[i - 1] = "C3")

\* bytes.decode() of bytes it accepts: a two-byte sequence becomes one
\* character, an ASCII byte its character.
RECURSIVE DecodeText(_)
DecodeText(b) ==
    IF b = <<>> THEN <<>>
    ELSE IF Head(b) = "C3" THEN <<"E_ACUTE">> \o DecodeText(From(b, 3))
    ELSE <<Head(b)>> \o DecodeText(Tail(b))

\* bytes(s, "utf-8")
RECURSIVE Encode(_)
Encode(s) ==
    IF s = <<>> THEN <<>>
    ELSE IF Head(s) = "E_ACUTE" THEN <<"C3", "A9">> \o Encode(Tail(s))
    ELSE <<Head(s)>> \o Encode(Tail(s))

-----------------------------------------------------------------------------
(* parse_private_message and chat.                                         *)

\* parse_private_message raises ValueError when one of its three unpacking
\* assignments gets a number of pieces other than the number of targets:
\* three for split(":"), two for split("!") and two for split("#").
ParseOk(server_message) ==
    LET parts == Split(server_message, <<":">>)
    IN  /\ Len(parts) = 3
        /\ LET bang == Split(parts[2], <<"!">>)
           IN  /\ Len(bang) = 2
               /\ Len(Split(bang[2], <<"#">>)) = 2

\* The dictionary parse_private_message returns when it does not raise.
parse_private_message(server_message) ==
    LET parts == Split(server_message, <<":">>)
        bang  == Split(parts[2], <<"!">>)
        hash  == Split(bang[2], <<"#">>)
    IN  [set      |-> TRUE,
         channel  |-> hash[2],
         username |-> bang[1],
         message  |-> parts[3]]

\* listen()'s local server_message_details before its first assignment.
NoDetails == [set |-> FALSE, channel |-> <<>>, username |-> <<>>, message |-> <<>>]

\* The condition of chat(): self.username in message.lower()
ChatMatches(d) == Contains(Lower(d.message), username)

\* The client_message chat() builds.
ChatMessage(d) ==
    PRIVMSG \o <<" ", "#">> \o d.channel \o <<" ", ":", "@">> \o d.username
        \o <<",", " ", "w", "e", "l", "c", "o", "m", "e", " ", "t", "o", " ",
             "m", "y", " ", "s", "t", "r", "e", "a", "m", ".">> \o CRLF

\* The bytes chat() sends, as a sequence of zero or one writes.
chat(d) == IF ChatMatches(d) THEN <<Encode(ChatMessage(d))>> ELSE <<>>

\* The bytes authenticate() sends.
PassMessage == Encode(<<"P","A","S","S"," ">> \o password \o CRLF)
NickMessage == Encode(<<"N","I","C","K"," ">> \o username \o CRLF)

\* The bytes join_channels() sends for one channel.
JoinMessage(channel) == Encode(<<"J","O","I","N"," ","#">> \o channel \o CRLF)

\* ChannelAt with the list walked from its end.
ChannelAtFromEnd(i) == channels[Len(channels) + 1 - i]

\* The channel join_channels() visits at step i of its for loop.
ChannelAt(i) == channels[i]

\* The bytes the PING branch of listen() sends.
PongMessage == Encode(PONG)

\* NamesEndIn with the loop left on the first reply that is not empty.
NamesEndInAnyReply(line) == line # <<>>

\* The test that ends the while loop of connect() (bot.py:103).
NamesEndIn(line) == Contains(line, EndOfNames)

\* The test of the PING branch of listen() (bot.py:159).
IsPing(line) == Contains(line, PING)

\* IsPrivmsg with every line taken for a chat message.
IsPrivmsgAlways(line) == TRUE

\* The test of the PRIVMSG branch of listen() (bot.py:163).
IsPrivmsg(line) == Contains(line, PRIVMSG)

-----------------------------------------------------------------------------
(* The inputs: the configuration main.py passes in, and what the server    *)
(* sends.                                                                  *)

kb    == <<"k","b">>
Kb    == <<"K","b">>
al    == <<"a","l">>
chanA == <<"a">>
chanB == <<"b">>

chanC == <<"c">>

Usernames == {kb, Kb}
Passwords == {<<"o","a","u","t","h",":","x">>}

\* The lists of distinct channels of one to MaxChannels channels (main.py:10
\* splits a string, which gives at least one).
ChannelLists ==
    {c \in UNION {[1..n -> {chanA, chanB, chanC}] : n \in 1..MaxChannels} :
        \A i, j \in 1..Len(c) : c[i] = c[j] => i = j}

TmiHost == <<".","t","m","i",".","t","w","i","t","c","h",".","t","v">>

\* The chat message the server sends (bot.py:9):
\* :<username>!<username>@<username>.tmi.twitch.tv PRIVMSG #<channel_name> :<chat_message>
ServerPrivmsg(user, channel, text) ==
    <<":">> \o user \o <<"!">> \o user \o <<"@">> \o user \o TmiHost
        \o <<" ">> \o PRIVMSG \o <<" ", "#">> \o channel \o <<" ", ":">> \o text

\* Chat texts users type.
Texts == {
    <<"h","i"," ","k","b">>,            \* names the bot
    <<"y","o">>,                        \* does not
    <<"h","i"," ","K","B">>,            \* names it in capitals
    <<"k","b",":"," ","h","i">>,        \* holds a colon
    <<"P","I","N","G"," ","k","b">>,    \* holds PING
    <<"k","b"," ","E_ACUTE">> }         \* holds a non-ASCII letter

\* The line that ends the NAMES list of a joined channel.
NamesEndLine == <<"3","6","6"," ",":">> \o EndOfNames

\* The server's keep-alive.
PingLine == PING \o <<" ",":","t","m","i",".","t","w","i","t","c","h",".","t","v">>

\* Lines (without their terminator) the server may send.
ServerLines ==
    {ServerPrivmsg(al, chanA, t) : t \in Texts} \cup
    { PingLine,
      NamesEndLine,
      <<>>,                                                              \* an empty line
      <<":">> \o al \o <<"!">> \o al \o <<"@">> \o al \o TmiHost
          \o <<" ","J","O","I","N"," ","#">> \o chanA,                  \* a JOIN echo
      PRIVMSG \o <<" ","#">> \o chanA,                                   \* no ':'
      <<":">> \o al \o <<" ">> \o PRIVMSG \o <<" ","#","a"," ",":","k","b">>,  \* no '!'
      <<":">> \o al \o <<"!">> \o al \o <<" ">> \o PRIVMSG
          \o <<" ","a"," ",":","k","b">>,                               \* no '#'
      <<":","a","#","l","!">> \o al \o <<" ">> \o PRIVMSG
          \o <<" ","#","a"," ",":","y","o">> }                          \* '#' before '!'

\* What the server sends in one piece: a line and its terminator, an
\* unterminated fragment, or bytes that are not UTF-8.
Segments ==
    {Encode(l) \o CRLF : l \in ServerLines} \cup {Encode(PING), <<"FF">> \o CRLF}

\* The byte streams the server may send after the JOINs: the names-end line
\* alone, followed by one segment, or preceded by one.
Transcripts ==
    LET namesEnd == Encode(NamesEndLine) \o CRLF
    IN  {namesEnd} \cup {namesEnd \o s : s \in Segments}
                   \cup {s \o namesEnd : s \in Segments}

\* The sessions explored: every configuration against the plain names-end
\* reply, and the configuration of two channels against every transcript.
Scenarios(chans) ==
    IF chans = <<chanA, chanB>> THEN Transcripts ELSE {Encode(NamesEndLine) \o CRLF}

-----------------------------------------------------------------------------
(* Two instances of TwitchChatBot in one process, each running connect()   *)
(* in a thread of its own.                                                 *)

Bots == {1, 2}

\* The socket objects there may be: the one bot.py:49 creates when the class
\* body runs, and one per instance.
ClassSocket == <<"TwitchChatBot._socket", 0>>
OwnSocket(b) == <<"self._socket", b>>
Sockets == {ClassSocket} \cup {OwnSocket(b) : b \in Bots}

\* The object self._socket is for instance b: __init__ (bot.py:57-60) assigns
\* no _socket, so the attribute is found on the class (bot.py:49).
SocketOfInstance(b) == ClassSocket

\* What the server sends on a connection: the end of the NAMES list, then
\* a PING.
ServerStream == Encode(NamesEndLine) \o CRLF \o Encode(PingLine) \o CRLF

\* The messages authenticate() and join_channels() send for instance b.
HandshakeOf(b) ==
    << Encode(<<"P","A","S","S"," ">> \o config[b].password \o CRLF),
       Encode(<<"N","I","C","K"," ">> \o config[b].username \o CRLF) >>
    \o [i \in 1..Len(config[b].channels) |-> JoinMessage(config[b].channels[i])]

\* The PONG writes listen() makes for the lines of one decoded chunk.
RECURSIVE PongsFor(_)
PongsFor(ls) ==
    IF ls = <<>> THEN <<>>
    ELSE (IF IsPing(Head(ls)) THEN <<PongMessage>> ELSE <<>>) \o PongsFor(Tail(ls))

\* The process after both instances are constructed.
ProcessInit ==
    /\ socketOf = [b \in Bots |-> SocketOfInstance(b)]
    /\ config \in [Bots -> [username : Usernames, password : Passwords,
                            channels : {<<chanA>>, <<chanB>>}]]
    /\ pos = [b \in Bots |-> "Disconnected"]
    /\ step = [b \in Bots |-> 0]
    /\ connected = [s \in Sockets |-> FALSE]
    /\ users = [s \in Sockets |-> {}]
    /\ sent = [s \in Sockets |-> <<>>]
    /\ inbound = [s \in Sockets |-> <<>>]

\* The process as the specification of the single session leaves it.
ProcessIdle ==
    /\ socketOf = [b \in Bots |-> SocketOfInstance(b)]
    /\ config = [b \in Bots |-> [username |-> kb, password |-> <<>>, channels |-> <<chanA>>]]
    /\ pos = [b \in Bots |-> "Disconnected"]
    /\ step = [b \in Bots |-> 0]
    /\ connected = [s \in Sockets |-> FALSE]
    /\ users = [s \in Sockets |-> {}]
    /\ sent = [s \in Sockets |-> <<>>]
    /\ inbound = [s \in Sockets |-> <<>>]

\* The session of main.py as the specification of two instances leaves it.
SessionIdle ==
    /\ state = "Disconnected"
    /\ idx = 0
    /\ username = kb
    /\ password = <<>>
    /\ channels = <<chanA>>
    /\ wire = <<>>
    /\ rx = <<>>
    /\ listened = <<>>
    /\ lines = <<>>
    /\ details = NoDetails
    /\ writes = <<>>
    /\ error = "none"
    /\ failed = FALSE
    /\ eofReads = 0

\* connect() of instance b: self._socket.connect succeeds (bot.py:90), which
\* it can only on a socket that is not connected yet; the server's stream
\* starts to arrive.
TwoConnect(b) ==
    /\ pos[b] = "Disconnected"
    /\ ~connected[socketOf[b]]
    /\ connected' = [connected EXCEPT ![socketOf[b]] = TRUE]
    /\ users' = [users EXCEPT ![socketOf[b]] = @ \cup {b}]
    /\ inbound' = [inbound EXCEPT ![socketOf[b]] = ServerStream]
    /\ pos' = [pos EXCEPT ![b] = "Authenticating"]
    /\ UNCHANGED <<socketOf, config, step, sent>>
    /\ UNCHANGED session

\* connect() of instance b: self._socket.connect raises, as it does on a
\* socket that is connected already (EISCONN), and may on any.
TwoConnectFail(b) ==
    /\ pos[b] = "Disconnected"
    /\ users' = [users EXCEPT ![socketOf[b]] = @ \cup {b}]
    /\ pos' = [pos EXCEPT ![b] = "Closed"]
    /\ UNCHANGED <<socketOf, config, step, connected, sent, inbound>>
    /\ UNCHANGED session

\* authenticate() and join_channels() of instance b: the next send
\* (bot.py:118, 119, 131).
TwoSend(b) ==
    /\ pos[b] \in {"Authenticating", "JoiningChannels"}
    /\ step[b] < Len(HandshakeOf(b))
    /\ sent' = [sent EXCEPT ![socketOf[b]] = Append(@, <<b, HandshakeOf(b)[step[b] + 1]>>)]
    /\ step' = [step EXCEPT ![b] = @ + 1]
    /\ pos' = [pos EXCEPT ![b] =
                  IF step[b] + 1 = Len(HandshakeOf(b)) THEN "AwaitingNamesEnd"
                  ELSE IF step[b] + 1 >= 2 THEN "JoiningChannels"
                  ELSE "Authenticating"]
    /\ UNCHANGED <<socketOf, config, connected, users, inbound>>
    /\ UNCHANGED session

\* One iteration of the while loop of connect() of instance b (bot.py:99-104)
\* on bytes that have arrived.
TwoAwaitRecv(b) ==
    /\ pos[b] = "AwaitingNamesEnd"
    /\ \E n \in 1..Len(inbound[socketOf[b]]) :
        /\ inbound' = [inbound EXCEPT ![socketOf[b]] = From(@, n + 1)]
        /\ pos' = [pos EXCEPT ![b] =
                      IF NamesEndIn(DecodeText(SubSeq(inbound[socketOf[b]], 1, n)))
                      THEN "Listening"
                      ELSE "AwaitingNamesEnd"]
    /\ UNCHANGED <<socketOf, config, step, connected, users, sent>>
    /\ UNCHANGED session

\* One iteration of the while loop of listen() of instance b (bot.py:155-165)
\* on bytes that have arrived: a PONG for every piece that holds PING.
TwoListen(b) ==
    /\ pos[b] = "Listening"
    /\ \E n \in 1..Len(inbound[socketOf[b]]) :
        /\ inbound' = [inbound EXCEPT ![socketOf[b]] = From(@, n + 1)]
        /\ sent' = [sent EXCEPT ![socketOf[b]] =
                       @ \o [i \in 1..Len(PongsFor(Split(DecodeText(SubSeq(inbound[socketOf[b]], 1, n)), CRLF)))
                               |-> <<b, PongMessage>>]]
    /\ pos' = pos
    /\ UNCHANGED <<socketOf, config, step, connected, users>>
    /\ UNCHANGED session

InitTwo == SessionIdle /\ ProcessInit

NextTwo ==
    \E b \in Bots :
        \/ TwoConnect(b)
        \/ TwoConnectFail(b)
        \/ TwoSend(b)
        \/ TwoAwaitRecv(b)
        \/ TwoListen(b)

SpecTwo == InitTwo /\ [][NextTwo]_vars

-----------------------------------------------------------------------------
(* The session.  `state` is the position of the control thread:            *)
(*   Disconnected      before connect() is called                          *)
(*   Connecting        in connect(), at self._socket.connect (bot.py:90)   *)
(*   Authenticating    in authenticate() (bot.py:93)                       *)
(*   JoiningChannels   in join_channels() (bot.py:96)                      *)
(*   AwaitingNamesEnd  in the while loop of connect() (bot.py:99-104)      *)
(*   Listening         in listen() (bot.py:107)                            *)
(*   Closed            connect() has been left by an exception             *)

Init ==
    /\ state = "Disconnected"
    /\ idx = 0
    /\ username \in Usernames
    /\ password \in Passwords
    /\ channels \in ChannelLists
    /\ wire \in Scenarios(channels)
    /\ rx = <<>>
    /\ listened = <<>>
    /\ lines = <<>>
    /\ details = NoDetails
    /\ writes = <<>>
    /\ error = "none"
    /\ failed = FALSE
    /\ eofReads = 0
    /\ ProcessIdle

\* Raise with the exception caught and dropped where it was raised.
RaiseSwallowed(exc) ==
    /\ state' = state
    /\ error' = error

\* Raise with the session sent back to connect again.
RaiseReconnects(exc) ==
    /\ state' = "Connecting"
    /\ error' = exc

\* An exception nothing catches leaves listen() and connect() (bot.py has no
\* try statement, and main.py:13 does not catch either).
Raise(exc) ==
    /\ state' = "Closed"
    /\ error' = exc

\* What self._socket.recv(self.socket_bytes) may return: any non-empty
\* prefix of the bytes in flight of at most socket_bytes bytes, or b"" once
\* the server has sent everything and closed.
RecvChunks ==
    IF wire = <<>>
    THEN {<<>>}
    ELSE {SubSeq(wire, 1, n) :
            n \in 1..(IF Len(wire) < socket_bytes THEN Len(wire) ELSE socket_bytes)}

\* main.py:13 calls connect().
CallConnect ==
    /\ state = "Disconnected"
    /\ state' = "Connecting"
    /\ UNCHANGED <<idx, username, password, channels, wire, rx, listened,
                   lines, details, writes, error, failed, eofReads>>
    /\ UNCHANGED process

\* self._socket.connect(...) returns (bot.py:90).
SocketConnect ==
    /\ state = "Connecting"
    /\ state' = "Authenticating"
    /\ idx' = 0
    /\ UNCHANGED <<username, password, channels, wire, rx, listened,
                   lines, details, writes, error, failed, eofReads>>
    /\ UNCHANGED process

\* self._socket.connect(...) raises.
ConnectFail ==
    /\ state = "Connecting"
    /\ failed' = TRUE
    /\ Raise("OSError")
    /\ UNCHANGED <<idx, username, password, channels, wire, rx, listened,
                   lines, details, writes, eofReads>>
    /\ UNCHANGED process

\* authenticate(): the PASS send (bot.py:118).
SendPass ==
    /\ state = "Authenticating"
    /\ idx = 0
    /\ writes' = Append(writes, PassMessage)
    /\ idx' = 1
    /\ UNCHANGED <<state, username, password, channels, wire, rx, listened,
                   lines, details, error, failed, eofReads>>
    /\ UNCHANGED process

\* authenticate(): the NICK send (bot.py:119); join_channels() is entered.
SendNick ==
    /\ state = "Authenticating"
    /\ idx = 1
    /\ writes' = Append(writes, NickMessage)
    /\ state' = "JoiningChannels"
    /\ idx' = 1
    /\ UNCHANGED <<username, password, channels, wire, rx, listened,
                   lines, details, error, failed, eofReads>>
    /\ UNCHANGED process

\* join_channels(): one iteration of the for loop (bot.py:129-131).
SendJoin ==
    /\ state = "JoiningChannels"
    /\ idx <= Len(channels)
    /\ writes' = Append(writes, JoinMessage(ChannelAt(idx)))
    /\ idx' = idx + 1
    /\ UNCHANGED <<state, username, password, channels, wire, rx, listened,
                   lines, details, error, failed, eofReads>>
    /\ UNCHANGED process

\* join_channels() returns; connect() enters its while loop (bot.py:99).
JoinDone ==
    /\ state = "JoiningChannels"
    /\ idx > Len(channels)
    /\ state' = "AwaitingNamesEnd"
    /\ UNCHANGED <<idx, username, password, channels, wire, rx, listened,
                   lines, details, writes, error, failed, eofReads>>
    /\ UNCHANGED process

\* A send of authenticate() or join_channels() raises.
HandshakeSendFail ==
    /\ \/ state = "Authenticating"
       \/ state = "JoiningChannels" /\ idx <= Len(channels)
    /\ failed' = TRUE
    /\ Raise("OSError")
    /\ UNCHANGED <<idx, username, password, channels, wire, rx, listened,
                   lines, details, writes, eofReads>>
    /\ UNCHANGED process

\* One iteration of the while loop of connect() (bot.py:99-104).
AwaitRecv ==
    /\ state = "AwaitingNamesEnd"
    /\ \E chunk \in RecvChunks :
        /\ chunk = <<>> => eofReads < MaxEofReads
        /\ eofReads' = IF chunk = <<>> THEN eofReads + 1 ELSE eofReads
        /\ wire' = From(wire, Len(chunk) + 1)
        /\ rx' = rx \o chunk
        /\ IF ~DecodeOk(chunk)
           THEN Raise("UnicodeDecodeError")
           ELSE /\ state' = IF NamesEndIn(DecodeText(chunk))
                            THEN "Listening"
                            ELSE "AwaitingNamesEnd"
                /\ error' = error
    /\ UNCHANGED <<idx, username, password, channels, listened,
                   lines, details, writes, failed>>
    /\ UNCHANGED process

\* listen(): recv, decode and split at the head of the for loop (bot.py:156).
ListenRecv ==
    /\ state = "Listening"
    /\ lines = <<>>
    /\ \E chunk \in RecvChunks :
        /\ chunk = <<>> => eofReads < MaxEofReads
        /\ eofReads' = IF chunk = <<>> THEN eofReads + 1 ELSE eofReads
        /\ wire' = From(wire, Len(chunk) + 1)
        /\ rx' = rx \o chunk
        /\ listened' = listened \o chunk
        /\ IF ~DecodeOk(chunk)
           THEN Raise("UnicodeDecodeError") /\ lines' = lines
           ELSE /\ lines' = Split(DecodeText(chunk), CRLF)
                /\ UNCHANGED <<state, error>>
    /\ UNCHANGED <<idx, username, password, channels, details, writes, failed>>
    /\ UNCHANGED process

\* self._socket.recv raises, in connect() or in listen().
RecvFail ==
    /\ \/ state = "AwaitingNamesEnd"
       \/ state = "Listening" /\ lines = <<>>
    /\ failed' = TRUE
    /\ Raise("OSError")
    /\ UNCHANGED <<idx, username, password, channels, wire, rx, listened,
                   lines, details, writes, eofReads>>
    /\ UNCHANGED process

\* listen(): the body of the for loop for one line (bot.py:158-165), no
\* send raising.
Dispatch ==
    /\ state = "Listening"
    /\ lines # <<>>
    /\ LET line   == Head(lines)
           ponged == IF IsPing(line) THEN Append(writes, PongMessage) ELSE writes
       IN  IF ~IsPrivmsg(line)
           THEN /\ writes' = ponged
                /\ UNCHANGED <<state, error, details>>
           ELSE IF ~ParseOk(line)
           THEN /\ writes' = ponged
                /\ Raise("ValueError")
                /\ details' = details
           ELSE /\ details' = parse_private_message(line)
                /\ writes' = ponged \o chat(parse_private_message(line))
                /\ UNCHANGED <<state, error>>
    /\ lines' = Tail(lines)
    /\ UNCHANGED <<idx, username, password, channels, wire, rx, listened,
                   failed, eofReads>>
    /\ UNCHANGED process

\* listen(): a send of the body of the for loop raises: the PONG send, or
\* the send of chat() after the PONG send (if any) went through.
DispatchSendFail ==
    /\ state = "Listening"
    /\ lines # <<>>
    /\ LET line == Head(lines)
       IN  \/ /\ IsPing(line)
              /\ UNCHANGED <<writes, details>>
           \/ /\ IsPrivmsg(line)
              /\ ParseOk(line)
              /\ chat(parse_private_message(line)) # <<>>
              /\ details' = parse_private_message(line)
              /\ writes' = IF IsPing(line)
                           THEN Append(writes, PongMessage)
                           ELSE writes
    /\ failed' = TRUE
    /\ Raise("OSError")
    /\ UNCHANGED <<idx, username, password, channels, wire, rx, listened,
                   lines, eofReads>>
    /\ UNCHANGED process

Next ==
    \/ CallConnect
    \/ SocketConnect
    \/ ConnectFail
    \/ SendPass
    \/ SendNick
    \/ SendJoin
    \/ JoinDone
    \/ HandshakeSendFail
    \/ AwaitRecv
    \/ ListenRecv
    \/ RecvFail
    \/ Dispatch
    \/ DispatchSendFail

Spec == Init /\ [][Next]_vars

-----------------------------------------------------------------------------
(* What the claims are stated with.                                        *)

\* s ends with suffix.
EndsWith(s, suffix) ==
    /\ Len(s) >= Len(suffix)
    /\ MatchAt(s, suffix, Len(s) - Len(suffix) + 1)

\* The complete lines of a byte stream: what precedes each terminator.  The
\* unterminated remainder is not one of them.
CompleteLines(stream) ==
    LET pieces == Split(stream, CRLF)
    IN  [i \in 1..(Len(pieces) - 1) |-> DecodeText(pieces[i])]

\* The lines a framer that buffers the unterminated remainder yields when
\* the stream received grows from `before` to `after`.
NewlyComplete(before, after) ==
    SubSeq(CompleteLines(after), Len(CompleteLines(before)) + 1,
           Len(CompleteLines(after)))

\* The bytes recv() returned before listen() was entered.
HandshakeBytes == SubSeq(rx, 1, Len(rx) - Len(listened))

\* listen() starts reading at the start of a line.
ListenStartsOnLine == EndsWith(HandshakeBytes, CRLF)

\* How many elements of the sequence s satisfy P.
Count(s, P(_)) == Cardinality({i \in 1..Len(s) : P(s[i])})

IsPong(w) == w = Encode(PONG) \/ w = Encode(PONG) \o CRLF
HasPing(l) == Contains(l, PING)

\* The step taken is one pass of the body of listen()'s for loop that ran to
\* its end.
Dispatched == state = "Listening" /\ lines # <<>> /\ lines' = Tail(lines)

-----------------------------------------------------------------------------
\* C1: the lines listen() hands to dispatch after a read are exactly the
\* lines of the stream that the read completed, in order: a line split
\* across reads is handed over once, whole, and an unterminated fragment is
\* not handed over.
C1_LinesAreFramed ==
    [][(listened' # listened /\ error' = "none" /\ ListenStartsOnLine)
          => lines' = NewlyComplete(listened, listened')]_vars

\* C2: once listen() has received complete lines only and has dispatched
\* all it received, the PONG writes are as many as the lines that contain
\* PING: one PONG for each.
C2_OnePongPerPingLine ==
    ( /\ state = "Listening"
      /\ lines = <<>>
      /\ error = "none"
      /\ ListenStartsOnLine
      /\ EndsWith(listened, CRLF) )
        => Count(writes, IsPong) = Count(CompleteLines(listened), HasPing)

\* C3: every write is one command that ends with its terminator and holds
\* no other terminator.
C3_WritesAreTerminated ==
    \A i \in 1..Len(writes) :
        /\ EndsWith(writes[i], CRLF)
        /\ Find(writes[i], CRLF) = Len(writes[i]) - 1

\* The writes the handshake is to make: PASS, NICK, then one JOIN per
\* channel in the order of the configuration.
ExpectedHandshake ==
    << <<"P","A","S","S"," ">> \o password \o <<CR, LF>>,
       <<"N","I","C","K"," ">> \o username \o <<CR, LF>> >>
    \o [i \in 1..Len(channels) |-> <<"J","O","I","N"," ","#">> \o channels[i] \o <<CR, LF>>]

NothingRead == rx = <<>> /\ eofReads = 0

\* C4: up to the first read the writes are a prefix of PASS, NICK and the
\* JOINs in configuration order, all of them once the first read is due,
\* and nothing is read while they are being made.
C4_HandshakeWrites ==
    /\ state \in {"Disconnected", "Connecting"} => (writes = <<>> /\ NothingRead)
    /\ state = "Authenticating" =>
          (writes = SubSeq(ExpectedHandshake, 1, idx) /\ NothingRead)
    /\ state = "JoiningChannels" =>
          (writes = SubSeq(ExpectedHandshake, 1, idx + 1) /\ NothingRead)
    /\ (state = "AwaitingNamesEnd" /\ NothingRead) => writes = ExpectedHandshake
    /\ (state = "Closed" /\ NothingRead) =>
          \E n \in 0..Len(ExpectedHandshake) : writes = SubSeq(ExpectedHandshake, 1, n)

\* C4 witness: the handshake for two channels is complete and the first read
\* is due.
C4_Witness ==
    /\ state = "AwaitingNamesEnd"
    /\ NothingRead
    /\ Len(channels) = 2
    /\ Len(writes) = 4
    /\ writes = ExpectedHandshake

\* C5: when the bytes received hold a complete line containing the names-end
\* text and nothing is left to read, the session is in listen().
C5_NamesEndIsObserved ==
    ( /\ wire = <<>>
      /\ error = "none"
      /\ DecodeOk(rx)
      /\ \E i \in 1..Len(CompleteLines(rx)) : Contains(CompleteLines(rx)[i], EndOfNames) )
        => state = "Listening"

\* C6: dispatching a chat line in the server's form whose text holds neither
\* ':' nor PING writes exactly PRIVMSG #<channel> :@<user>, welcome to my
\* stream.\r\n when the text names the bot, and nothing otherwise.
C6_ReplyToNamedChannel ==
    [][\A t \in Texts :
          ( /\ Dispatched
            /\ Head(lines) = ServerPrivmsg(al, chanA, t)
            /\ ~Contains(t, <<":">>)
            /\ ~Contains(t, PING) )
          => writes' = writes \o
                (IF ChatMatches([message |-> t])
                 THEN << Encode(PRIVMSG \o <<" ","#">> \o chanA \o <<" ",":","@">> \o al
                            \o <<","," ","w","e","l","c","o","m","e"," ","t","o"," ",
                                 "m","y"," ","s","t","r","e","a","m",".">> \o CRLF) >>
                 ELSE <<>>)]_vars

\* A line is a malformed PRIVMSG: fewer than two ':', or no '!' or no '#'
\* between the first two.
Malformed(l) ==
    /\ Contains(l, PRIVMSG)
    /\ \/ Len(Split(l, <<":">>)) < 3
       \/ ~Contains(Split(l, <<":">>)[2], <<"!">>)
       \/ ~Contains(Split(l, <<":">>)[2], <<"#">>)

\* C7: dispatching a line of the server that is a malformed PRIVMSG (and
\* holds no PING) writes nothing and leaves the session listening, with no
\* error.
C7_MalformedIsSkipped ==
    [][( /\ Dispatched
         /\ Head(lines) \in ServerLines
         /\ Malformed(Head(lines))
         /\ ~Contains(Head(lines), PING) )
          => (writes' = writes /\ state' = "Listening" /\ error' = "none")]_vars

\* C8: parsing a chat line whose text holds ':' succeeds, the message is the
\* whole text, and username and channel are those of the same line with a
\* text that holds none.
C8_ColonsInTextKept ==
    [][\A t \in Texts :
          (Dispatched /\ Head(lines) = ServerPrivmsg(al, chanA, t) /\ Contains(t, <<":">>))
          => /\ error' = "none"
             /\ details'.set
             /\ details'.message = t
             /\ details'.username = al
             /\ details'.channel = parse_private_message(ServerPrivmsg(al, chanA, <<"y","o">>)).channel]_vars

\* C9: once recv() has returned b"" the session is Closed.
C9_EofCloses == eofReads > 0 => state = "Closed"

\* C10: a socket call that raises leaves the session Closed with the error
\* surfaced, and a Closed session does not read, write or change state.
C10_IoFailureIsFatal ==
    [][ /\ (failed' /\ ~failed) => (state' = "Closed" /\ error' = "OSError")
        /\ failed => UNCHANGED <<state, error, writes, wire, rx, eofReads>> ]_vars

\* C10 witness: a socket call raised after the session had begun to listen.
C10_Witness ==
    /\ failed
    /\ state = "Closed"
    /\ error = "OSError"
    /\ listened # <<>>

\* C11: dispatching a chat line in the server's form (text without ':' or
\* PING) parses it to the user before '!', the channel with no surrounding
\* whitespace, and the text.
C11_CanonicalLineParsed ==
    [][\A t \in Texts :
          ( /\ Dispatched
            /\ Head(lines) = ServerPrivmsg(al, chanA, t)
            /\ ~Contains(t, <<":">>)
            /\ ~Contains(t, PING) )
          => /\ details'.set
             /\ details'.username = al
             /\ details'.channel = chanA
             /\ details'.message = t]_vars

\* C12: dispatching a line of the server that contains PING writes one PONG
\* and nothing else, and parses nothing.
C12_PingOnly ==
    [][(Dispatched /\ Head(lines) \in ServerLines /\ Contains(Head(lines), PING))
          => /\ Len(writes') = Len(writes) + 1
             /\ IsPong(writes'[Len(writes')])
             /\ details' = details
             /\ error' = "none"]_vars

\* C13: dispatching a chat line of the server (text without ':' or PING)
\* writes a reply exactly when the bot's username, lowered, occurs in the
\* text, lowered.
C13_PolicyIgnoresCase ==
    [][\A t \in Texts :
          ( /\ Dispatched
            /\ Head(lines) = ServerPrivmsg(al, chanA, t)
            /\ ~Contains(t, <<":">>)
            /\ ~Contains(t, PING) )
          => (Len(writes') = Len(writes) + 1 <=> Contains(Lower(t), Lower(username)))]_vars

\* C14: a read that returns bytes that are not valid UTF-8 raises nothing
\* and leaves the session in the state it was in.
C14_BadBytesAbsorbed ==
    [][(rx' # rx /\ ~DecodeOk(SubSeq(rx', Len(rx) + 1, Len(rx'))))
          => (error' = "none" /\ state' = state)]_vars

\* C15: the channel and the username of a parsed chat line hold none of
\* '!', '#' and ':'.
C15_NoDelimitersInFields ==
    details.set =>
        \A c \in {"!", "#", ":"} :
            /\ ~Contains(details.channel, <<c>>)
            /\ ~Contains(details.username, <<c>>)

\* The bytes the step's read returned.
ChunkRead == SubSeq(rx', Len(rx) + 1, Len(rx'))

\* C16: a step taken while the names-end line is awaited writes nothing, and
\* listen() is entered only from that wait, by a read that returned the
\* names-end text.
C16_SilentUntilNamesEnd ==
    [][ /\ state = "AwaitingNamesEnd" => writes' = writes
        /\ (state # "Listening" /\ state' = "Listening")
              => (state = "AwaitingNamesEnd" /\ Contains(ChunkRead, EndOfNames)) ]_vars

\* C16 witness: a whole PING line has been received while the names-end line
\* is awaited, and the writes are those of the handshake.
C16_Witness ==
    /\ state = "AwaitingNamesEnd"
    /\ rx = PING \o <<" ",":","t","m","i",".","t","w","i","t","c","h",".","t","v">> \o CRLF
    /\ writes = ExpectedHandshake

\* C17: while listening, the step for a line that holds neither PING nor
\* PRIVMSG only moves to the next line: nothing is written or parsed and the
\* session keeps listening.
C17_OtherLinesAreNoOps ==
    [][( /\ state = "Listening"
         /\ lines # <<>>
         /\ ~Contains(Head(lines), PING)
         /\ ~Contains(Head(lines), PRIVMSG) )
          => /\ lines' = Tail(lines)
             /\ writes' = writes
             /\ details' = details
             /\ state' = "Listening"
             /\ error' = "none"]_vars

\* C17 witness: listen() has received an empty line, and has dispatched all
\* it received, with nothing written beyond the handshake.
C17_Witness ==
    /\ state = "Listening"
    /\ lines = <<>>
    /\ listened = CRLF
    /\ error = "none"
    /\ details = NoDetails
    /\ Len(writes) = 4

StateOrder == <<"Disconnected", "Connecting", "Authenticating", "JoiningChannels",
                "AwaitingNamesEnd", "Listening", "Closed">>

Rank(s) == CHOOSE i \in 1..Len(StateOrder) : StateOrder[i] = s

\* C18: a step that changes the state moves it to the next state of the
\* order, or to Closed with an error; Closed is never left.
C18_StatesMoveForward ==
    [][ /\ state' # state =>
              \/ Rank(state') = Rank(state) + 1
              \/ state' = "Closed" /\ error' # "none"
        /\ state = "Closed" => state' = "Closed" ]_vars

\* C18 witness: the session went through every state up to Listening and was
\* closed there by a line it could not parse.
C18_Witness ==
    /\ state = "Closed"
    /\ error = "ValueError"
    /\ Len(writes) >= 3

\* C19: when the read that returned the names-end line also returned a PING
\* line after it, then once listen() has read again and dispatched all it
\* has, the PONG is written.
C19_NothingLostAtBoundary ==
    ( /\ state = "Listening"
      /\ lines = <<>>
      /\ eofReads > 0
      /\ error = "none"
      /\ HandshakeBytes = <<"3","6","6"," ",":">> \o EndOfNames \o CRLF \o PING
             \o <<" ",":","t","m","i",".","t","w","i","t","c","h",".","t","v">> \o CRLF )
        => Count(writes, IsPong) = 1

\* C20: no socket object has a method called by more than one instance.
C20_SocketsAreExclusive ==
    \A s \in Sockets : Cardinality(users[s]) <= 1

====
